---- MODULE Spec2Model ----
(***************************************************************************)
(* Model of texture-atlas-rs: the tile atlas builder (tile_atlas.rs), the  *)
(* built atlas and the cache gatekeeper (tile_atlas_config.rs).            *)
(***************************************************************************)
EXTENDS Integers, Sequences, FiniteSets, TLC

(***************************************************************************)
(* Program constants and model bounds                                      *)
(***************************************************************************)

\* TexturePackerConfig.max_width / max_height of a tile atlas page
MaxWidth == 2048
MaxHeight == 2048

\* at most this many builder calls are explored in one behaviour
MaxOps == 4
\* at most this many gatekeeper launches are explored in one behaviour
MaxRuns == 3

Keys == {"a", "b", "c"}
TileSizes == {<<24, 24>>, <<48, 48>>}
Indices == {0, 1}

NoRect == [x |-> -1, y |-> -1, w |-> 0, h |-> 0]

Max(a, b) == IF a >= b THEN a ELSE b

\* the element of a one-element set
Only(S) == CHOOSE x \in S : TRUE

(***************************************************************************)
(* The skyline packer behind TilePacker (one per page)                     *)
(***************************************************************************)

RectRight(r) == r.x + r.w - 1
RectBottom(r) == r.y + r.h - 1

border == [x |-> 0, y |-> 0, w |-> MaxWidth, h |-> MaxHeight]

RectContains(outer, r) ==
    /\ outer.x <= r.x
    /\ RectRight(outer) >= RectRight(r)
    /\ outer.y <= r.y
    /\ RectBottom(outer) >= RectBottom(r)

\* a fresh page: one skyline spanning the page width, no frames
new_skyline == [skylines |-> <<[x |-> 0, y |-> 0, w |-> MaxWidth]>>,
                frames |-> <<>>]

\* the rect of a w x h image resting on the skylines from index i; NoRect if
\* it leaves the page
RECURSIVE can_put(_, _, _, _, _, _, _)
can_put(sk, i, x, y, w, h, width_left) ==
    LET ny == Max(y, sk[i].y)
        rect == [x |-> x, y |-> ny, w |-> w, h |-> h]
    IN  IF ~RectContains(border, rect) THEN NoRect
        ELSE IF sk[i].w >= width_left THEN rect
        ELSE IF i + 1 > Len(sk) THEN NoRect
        ELSE can_put(sk, i + 1, x, ny, w, h, width_left - sk[i].w)

\* bottom-left heuristic: lowest bottom, then narrowest skyline, first index
\* winning ties.  best = [index, rect, bottom, width]
RECURSIVE find_skyline_from(_, _, _, _, _)
find_skyline_from(sk, i, w, h, best) ==
    IF i > Len(sk) THEN best
    ELSE LET r == can_put(sk, i, sk[i].x, 0, w, h, w)
             better == /\ r # NoRect
                       /\ \/ best.index = 0
                          \/ RectBottom(r) < best.bottom
                          \/ RectBottom(r) = best.bottom /\ sk[i].w < best.width
         IN  find_skyline_from(sk, i + 1, w, h,
                IF better
                THEN [index |-> i, rect |-> r, bottom |-> RectBottom(r),
                      width |-> sk[i].w]
                ELSE best)

find_skyline(sk, w, h) ==
    find_skyline_from(sk, 1, w, h,
        [index |-> 0, rect |-> NoRect, bottom |-> 0, width |-> 0])

\* the skyline a placed rect leaves on top of itself must stay on the page
skyline_fits(rect) ==
    /\ rect.x + rect.w - 1 <= RectRight(border)
    /\ RectBottom(rect) + 1 <= RectBottom(border)

can_pack(packer, img) ==
    LET f == find_skyline(packer.skylines, img[1], img[2])
    IN  f.index # 0 /\ skyline_fits(f.rect)

InsertAt(s, i, e) == SubSeq(s, 1, i - 1) \o <<e>> \o SubSeq(s, i, Len(s))
RemoveAt(s, i) == SubSeq(s, 1, i - 1) \o SubSeq(s, i + 1, Len(s))

\* shrink or drop the skylines the new one at i-1 now covers
RECURSIVE split_shrink(_, _)
split_shrink(sk, i) ==
    IF i > Len(sk) THEN sk
    ELSE LET prevRight == sk[i - 1].x + sk[i - 1].w - 1
         IN  IF sk[i].x <= prevRight
             THEN LET shrink == prevRight - sk[i].x + 1
                  IN  IF sk[i].w <= shrink
                      THEN split_shrink(RemoveAt(sk, i), i)
                      ELSE [sk EXCEPT ![i] = [x |-> sk[i].x + shrink,
                                              y |-> sk[i].y,
                                              w |-> sk[i].w - shrink]]
             ELSE sk

split(sk, index, rect) ==
    split_shrink(InsertAt(sk, index,
                    [x |-> rect.x, y |-> RectBottom(rect) + 1, w |-> rect.w]),
                 index + 1)

\* join neighbouring skylines of equal height
RECURSIVE merge(_, _)
merge(sk, i) ==
    IF i > Len(sk) THEN sk
    ELSE IF sk[i - 1].y = sk[i].y
         THEN merge(RemoveAt([sk EXCEPT ![i - 1].w = sk[i - 1].w + sk[i].w], i), i)
         ELSE merge(sk, i + 1)

\* pack_own followed by get_frame: ok = FALSE is the unwrap that panics
pack_own(packer, key, img) ==
    LET f == find_skyline(packer.skylines, img[1], img[2])
    IN  IF f.index = 0 \/ ~skyline_fits(f.rect)
        THEN [ok |-> FALSE, packer |-> packer, rect |-> NoRect]
        ELSE [ok |-> TRUE,
              packer |-> [skylines |-> merge(split(packer.skylines, f.index, f.rect), 2),
                          frames |-> Append(packer.frames,
                                            [key |-> key, rect |-> f.rect])],
              rect |-> f.rect]

\* width and height of the image ImageExporter::export makes of a page: the
\* bounding box of its frames; <<0, 0>> for a page without frames
RECURSIVE page_extent(_, _, _)
page_extent(fr, i, acc) ==
    IF i > Len(fr) THEN acc
    ELSE page_extent(fr, i + 1,
            <<Max(acc[1], RectRight(fr[i].rect) + 1),
              Max(acc[2], RectBottom(fr[i].rect) + 1)>>)

export(packer) ==
    LET dim == page_extent(packer.frames, 1, <<0, 0>>)
    IN  [ok |-> dim[1] # 0 /\ dim[2] # 0,
         image |-> [width |-> dim[1], height |-> dim[2], frames |-> packer.frames]]

(***************************************************************************)
(* AtlasTile, AtlasFrame                                                   *)
(***************************************************************************)

Static == [tag |-> "Static", frame_count |-> 0, delay |-> 0]
Animated(n, d) == [tag |-> "Animated", frame_count |-> n, delay |-> d]

TileData ==
    { [offset |-> <<0, 0>>, is_autotile |-> FALSE, tile_kind |-> Static],
      [offset |-> <<1, 0>>, is_autotile |-> TRUE, tile_kind |-> Animated(4, 100)] }

AtlasRect_from(rect) == [x |-> rect.x, y |-> rect.y, w |-> rect.w, h |-> rect.h]

\* a frame that numbers its page from 1
AtlasFrame_new_one_based(texture_idx, rect, tile_size) ==
    [tile_size |-> tile_size,
     texture_idx |-> texture_idx + 1,
     rect |-> AtlasRect_from(rect),
     offsets |-> <<>>]

AtlasFrame_new(texture_idx, rect, tile_size) ==
    [tile_size |-> tile_size,
     texture_idx |-> texture_idx,
     rect |-> AtlasRect_from(rect),
     offsets |-> <<>>]

\* HashMap::insert
Insert(m, k, v) == [x \in DOMAIN m \cup {k} |-> IF x = k THEN v ELSE m[x]]

(***************************************************************************)
(* TileAtlasBuilder                                                        *)
(***************************************************************************)

add_packer(packers) == Append(packers, new_skyline)

TileAtlasBuilder_new ==
    [locations |-> <<>>, frames |-> <<>>, packers |-> add_packer(<<>>)]

\* add_tile recording the location before it checks that the frame exists
add_tile_location_first(b, key, index, tile_data) ==
    IF key \notin DOMAIN b.frames
    THEN [status |-> "panic",
          b |-> [b EXCEPT !.locations = Insert(b.locations, index, key)]]
    ELSE IF index \in DOMAIN b.frames[key].offsets
    THEN [status |-> "panic", b |-> b]
    ELSE [status |-> "ok",
          b |-> [b EXCEPT
                 !.frames = Insert(b.frames, key,
                               [b.frames[key] EXCEPT
                                !.offsets = Insert(b.frames[key].offsets,
                                                   index, tile_data)]),
                 !.locations = Insert(b.locations, index, key)]]

\* add_tile inserting the tile before it checks that the index is free
add_tile_insert_first(b, key, index, tile_data) ==
    IF key \notin DOMAIN b.frames
    THEN [status |-> "panic", b |-> b]
    ELSE [status |-> IF index \in DOMAIN b.frames[key].offsets
                     THEN "panic" ELSE "ok",
          b |-> [b EXCEPT
                 !.frames = Insert(b.frames, key,
                               [b.frames[key] EXCEPT
                                !.offsets = Insert(b.frames[key].offsets,
                                                   index, tile_data)]),
                 !.locations = Insert(b.locations, index, key)]]

\* status "panic": one of the two assert!s failed, before any mutation
add_tile(b, key, index, tile_data) ==
    IF key \notin DOMAIN b.frames
    THEN [status |-> "panic", b |-> b]
    ELSE IF index \in DOMAIN b.frames[key].offsets
    THEN [status |-> "panic", b |-> b]
    ELSE [status |-> "ok",
          b |-> [b EXCEPT
                 !.frames = Insert(b.frames, key,
                               [b.frames[key] EXCEPT
                                !.offsets = Insert(b.frames[key].offsets,
                                                   index, tile_data)]),
                 !.locations = Insert(b.locations, index, key)]]

\* a first fit that never finds a page
first_fit_never(packers, i, img) == 0

\* a fit on the page created last among those that accept the image
first_fit_last(packers, i, img) ==
    IF \A p \in i..Len(packers) : ~can_pack(packers[p], img) THEN 0
    ELSE CHOOSE p \in i..Len(packers) :
             /\ can_pack(packers[p], img)
             /\ \A q \in (p + 1)..Len(packers) : ~can_pack(packers[q], img)

\* position (1-based) of the first page whose packer accepts the image, 0 if
\* none does
RECURSIVE first_fit(_, _, _)
first_fit(packers, i, img) ==
    IF i > Len(packers) THEN 0
    ELSE IF can_pack(packers[i], img) THEN i
    ELSE first_fit(packers, i + 1, img)

\* img is the image ImageImporter reads from the path, NoImage when the file
\* cannot be read.  calls counts the packer invocations (can_pack, pack_own).
NoImage == <<0, 0>>

\* the part of add_frame after the early return: import, first fit, grow
add_new_frame(b, key, tile_size, img) ==
    IF img = NoImage
    THEN [status |-> "panic", b |-> b, calls |-> 0]
    ELSE LET p == first_fit(b.packers, 1, img)
         IN  IF p # 0
             THEN LET r == pack_own(b.packers[p], key, img)
                  IN  [status |-> IF r.ok THEN "ok" ELSE "panic",
                       b |-> IF r.ok
                             THEN [b EXCEPT
                                   !.packers[p] = r.packer,
                                   !.frames = Insert(b.frames, key,
                                       AtlasFrame_new(p - 1, r.rect, tile_size))]
                             ELSE b,
                       calls |-> p + 1]
             ELSE LET grown == add_packer(b.packers)
                      packer_idx == Len(grown) - 1
                      r == pack_own(grown[packer_idx + 1], key, img)
                  IN  [status |-> IF r.ok THEN "ok" ELSE "panic",
                       b |-> IF r.ok
                             THEN [b EXCEPT
                                   !.packers = [grown EXCEPT
                                                ![packer_idx + 1] = r.packer],
                                   !.frames = Insert(b.frames, key,
                                       AtlasFrame_new(packer_idx, r.rect, tile_size))]
                             ELSE [b EXCEPT !.packers = grown],
                       calls |-> Len(b.packers) + 1]

\* add_frame taking the tile size of a repeated call
add_frame_retile(b, key, tile_size, img) ==
    IF key \in DOMAIN b.frames
    THEN [status |-> "noop",
          b |-> [b EXCEPT !.frames[key].tile_size = tile_size],
          calls |-> 0]
    ELSE add_new_frame(b, key, tile_size, img)

add_frame(b, key, tile_size, img) ==
    IF key \in DOMAIN b.frames
    THEN [status |-> "noop", b |-> b, calls |-> 0]
    ELSE add_new_frame(b, key, tile_size, img)

(***************************************************************************)
(* The cache directory data/.packed/<name> and TileAtlasBuilder::build     *)
(***************************************************************************)

NoBin == [file_hash |-> -1, locations |-> <<>>, frames |-> <<>>]

\* a cache.bin that File::create made (or truncated) and nothing was written
\* to: no config can be deserialized from it
EmptyBin == [file_hash |-> -2, locations |-> <<>>, frames |-> <<>>]

\* a page file that File::create made (or truncated) and no image was saved
\* to: image::open cannot decode it
EmptyPng == [width |-> 0, height |-> 0, frames |-> <<>>]

NoDir == [exists |-> FALSE, bin |-> NoBin, pngs |-> <<>>]
EmptyDir == [exists |-> TRUE, bin |-> NoBin, pngs |-> <<>>]

NoAtlas == [locations |-> <<>>, frames |-> <<>>, textures |-> <<>>]

\* the loop over the pages: export, File::create + save when a folder is
\* given, make_texture.  A failed unwrap stops the loop, keeping the files
\* written so far.
RECURSIVE build_pages(_, _, _, _, _)
build_pages(packers, i, to_folder, dir, textures) ==
    IF i > Len(packers) THEN [ok |-> TRUE, textures |-> textures, dir |-> dir]
    ELSE LET e == export(packers[i])
         IN  IF ~e.ok
             THEN [ok |-> FALSE, textures |-> textures, dir |-> dir]
             ELSE IF to_folder /\ ~dir.exists
             THEN [ok |-> FALSE, textures |-> textures, dir |-> dir]
             ELSE build_pages(packers, i + 1, to_folder,
                      IF to_folder
                      THEN [dir EXCEPT !.pngs = Insert(dir.pngs, i - 1, e.image)]
                      ELSE dir,
                      Append(textures, e.image))

\* build returning an atlas with a fresh locations table
build_empty_locations(b, to_folder, dir) ==
    LET r == build_pages(b.packers, 1, to_folder, dir, <<>>)
    IN  [status |-> IF r.ok THEN "ok" ELSE "panic",
         atlas |-> IF r.ok
                   THEN [locations |-> <<>>,
                         frames |-> b.frames,
                         textures |-> r.textures]
                   ELSE NoAtlas,
         dir |-> r.dir,
         b |-> b]

\* build refusing to overwrite a page file that exists
build_create_new(b, to_folder, dir) ==
    LET r == build_pages(b.packers, 1, to_folder, dir, <<>>)
        fresh == ~to_folder \/ DOMAIN dir.pngs = {}
    IN  [status |-> IF r.ok /\ fresh THEN "ok" ELSE "panic",
         atlas |-> IF r.ok /\ fresh
                   THEN [locations |-> b.locations,
                         frames |-> b.frames,
                         textures |-> r.textures]
                   ELSE NoAtlas,
         dir |-> IF fresh THEN r.dir ELSE dir,
         b |-> b]

\* build moving the tables out of the builder into the atlas
build_taking_tables(b, to_folder, dir) ==
    LET r == build_pages(b.packers, 1, to_folder, dir, <<>>)
    IN  [status |-> IF r.ok THEN "ok" ELSE "panic",
         atlas |-> IF r.ok
                   THEN [locations |-> b.locations,
                         frames |-> b.frames,
                         textures |-> r.textures]
                   ELSE NoAtlas,
         dir |-> r.dir,
         b |-> IF r.ok
               THEN [b EXCEPT !.locations = <<>>, !.frames = <<>>]
               ELSE b]

\* build borrows the builder: the tables are cloned into the atlas and the
\* builder b is as before
build(b, to_folder, dir) ==
    LET r == build_pages(b.packers, 1, to_folder, dir, <<>>)
    IN  [status |-> IF r.ok THEN "ok" ELSE "panic",
         atlas |-> IF r.ok
                   THEN [locations |-> b.locations,
                         frames |-> b.frames,
                         textures |-> r.textures]
                   ELSE NoAtlas,
         dir |-> r.dir,
         b |-> b]

(***************************************************************************)
(* TileAtlas lookups                                                       *)
(***************************************************************************)

get_frame(a, tile_type) == a.frames[a.locations[tile_type]]

get_tile(a, tile_type) == get_frame(a, tile_type).offsets[tile_type]

CeilDiv(a, b) == (a + b - 1) \div b

get_add_offset(rect, tile_size) ==
    <<CeilDiv(rect.x, tile_size[1]), CeilDiv(rect.y, tile_size[2])>>

\* an animation that runs on past its last frame
x_index_offset_unwrapped(tile, msecs) ==
    IF tile.tile_kind.tag = "Static" THEN 0
    ELSE (msecs \div tile.tile_kind.delay)
         * (IF tile.is_autotile THEN 2 ELSE 1)

\* the animation advance in cells at time msecs; it is below 2 * frame_count,
\* which the cast to u32 leaves as it is for every frame count below 2^31
x_index_offset(tile, msecs) ==
    IF tile.tile_kind.tag = "Static" THEN 0
    ELSE ((msecs \div tile.tile_kind.delay) % tile.tile_kind.frame_count)
         * (IF tile.is_autotile THEN 2 ELSE 1)

\* the advance of an autotile added after the scaling by 2
texture_cell_advance_unscaled(a, tile_type, msecs) ==
    LET frame == get_frame(a, tile_type)
        tile == get_tile(a, tile_type)
        add_offset == get_add_offset(frame.rect, frame.tile_size)
        ratio == IF tile.is_autotile THEN 2 ELSE 1
    IN  <<(tile.offset[1] + add_offset[1]) * ratio
              + x_index_offset(tile, msecs),
          (tile.offset[2] + add_offset[2]) * ratio>>

\* get_texture_offset before the scaling by the texture ratio: the cell
\* <<column, row>> the tile is sampled from at time msecs
texture_cell(a, tile_type, msecs) ==
    LET frame == get_frame(a, tile_type)
        tile == get_tile(a, tile_type)
        add_offset == get_add_offset(frame.rect, frame.tile_size)
        ratio == IF tile.is_autotile THEN 2 ELSE 1
    IN  <<(tile.offset[1] + add_offset[1] + x_index_offset(tile, msecs)) * ratio,
          (tile.offset[2] + add_offset[2]) * ratio>>

\* f32 values that are not negative, as IEEE 754 binary32 has them: zero,
\* infinity, NaN, or the number m * 2^e with a significand m of 24 bits,
\* 2^23 <= m < 2^24.  Every number has one such pair, so two f32 values are
\* equal exactly when their records are.  The operands met here are u32
\* values, their quotients and the reciprocals and products of those, which
\* lie between 2^-32 and 2^64: no result overflows or is subnormal.
Two10 == 2^10
Two12 == 2^12
Two23 == 2^23
Two24 == 2^24
Two25 == 2^25

F32Zero == [tag |-> "zero", m |-> 0, e |-> 0]
F32Inf == [tag |-> "inf", m |-> 0, e |-> 0]
F32NaN == [tag |-> "nan", m |-> 0, e |-> 0]
f32_num(m, e) == [tag |-> "num", m |-> m, e |-> e]
F32One == f32_num(Two23, -23)

\* The f32 nearest to a value v with q * 2^e <= v < (q + 1) * 2^e, q > 0,
\* where sticky tells that v is above q * 2^e; ties go to the even
\* significand.  A q below 2^24 comes with sticky = FALSE and is exact.
RECURSIVE f32_round(_, _, _)
f32_round(q, sticky, e) ==
    IF q >= Two25 THEN f32_round(q \div 2, sticky \/ q % 2 = 1, e + 1)
    ELSE IF q < Two23 THEN f32_round(q * 2, sticky, e - 1)
    ELSE IF q < Two24 THEN f32_num(q, e)
    ELSE IF ~(q % 2 = 1 /\ (sticky \/ (q \div 2) % 2 = 1))
    THEN f32_num(q \div 2, e + 1)
    ELSE IF q \div 2 + 1 = Two24 THEN f32_num(Two23, e + 2)
    ELSE f32_num(q \div 2 + 1, e + 1)

\* n as f32, for a u32 n
f32_from_u32(n) == IF n = 0 THEN F32Zero ELSE f32_round(n, FALSE, 0)

\* k more bits of the quotient q, remainder r, of a division by d
RECURSIVE div_bits(_, _, _, _)
div_bits(q, r, d, k) ==
    IF k = 0 THEN [q |-> q, r |-> r]
    ELSE IF 2 * r >= d THEN div_bits(2 * q + 1, 2 * r - d, d, k - 1)
    ELSE div_bits(2 * q, 2 * r, d, k - 1)

\* x / y in f32
f32_div(x, y) ==
    IF x.tag = "nan" \/ y.tag = "nan" THEN F32NaN
    ELSE IF x.tag = "inf" THEN (IF y.tag = "inf" THEN F32NaN ELSE F32Inf)
    ELSE IF y.tag = "inf" THEN F32Zero
    ELSE IF y.tag = "zero" THEN (IF x.tag = "zero" THEN F32NaN ELSE F32Inf)
    ELSE IF x.tag = "zero" THEN F32Zero
    ELSE \* the quotient of the significands to 25 binary places
         Only({ f32_round(d.q, d.r # 0, x.e - y.e - 25) :
                d \in {div_bits(x.m \div y.m, x.m % y.m, y.m, 25)} })

\* x * y in f32; the 48-bit product of the significands is taken in halves
\* of 12 bits
f32_mul(x, y) ==
    IF x.tag = "nan" \/ y.tag = "nan" THEN F32NaN
    ELSE IF {x.tag, y.tag} = {"zero", "inf"} THEN F32NaN
    ELSE IF x.tag = "zero" \/ y.tag = "zero" THEN F32Zero
    ELSE IF x.tag = "inf" \/ y.tag = "inf" THEN F32Inf
    ELSE LET lo == (x.m % Two12) * (y.m % Two12)
             mid == (x.m \div Two12) * (y.m % Two12)
                    + (x.m % Two12) * (y.m \div Two12) + lo \div Two12
             hi == (x.m \div Two12) * (y.m \div Two12) + mid \div Two12
         IN  Only({ f32_round(q, mid % Two10 # 0 \/ lo % Two12 # 0,
                              x.e + y.e + 22) :
                    q \in {hi * 4 + (mid % Two12) \div Two10} })

\* the sampling size of a tile: its frame's tile size, halved for an autotile
sampling_size(a, tile_type) ==
    LET frame == get_frame(a, tile_type)
    IN  IF get_tile(a, tile_type).is_autotile
        THEN <<frame.tile_size[1] \div 2, frame.tile_size[2] \div 2>>
        ELSE frame.tile_size

get_tile_texture_idx(a, tile_type) == get_frame(a, tile_type).texture_idx

\* Vec::get(idx): the textures are numbered from 0
get_texture(a, idx) ==
    IF idx + 1 \in DOMAIN a.textures
    THEN [ok |-> TRUE, texture |-> a.textures[idx + 1]]
    ELSE [ok |-> FALSE, texture |-> [width |-> 0, height |-> 0, frames |-> <<>>]]

\* the tile index is in locations, its frame in frames and the tile in the
\* frame's offsets: none of the unwraps of get_frame and of
\* frame.offsets.get(&tile_type) panics
resolves(a, tile_type) ==
    /\ tile_type \in DOMAIN a.locations
    /\ a.locations[tile_type] \in DOMAIN a.frames
    /\ tile_type \in DOMAIN a.frames[a.locations[tile_type]].offsets

\* what a lookup that panicked leaves in place of a result
NoRatio == <<F32Zero, F32Zero>>

\* a ratio of one over the whole number of cells of the page
get_sprite_tex_ratio_floored(a, tile_type) ==
    IF ~resolves(a, tile_type) THEN [ok |-> FALSE, ratio |-> NoRatio]
    ELSE IF ~get_texture(a, get_tile_texture_idx(a, tile_type)).ok
    THEN [ok |-> FALSE, ratio |-> NoRatio]
    ELSE LET s == sampling_size(a, tile_type)
             texture == get_texture(a, get_tile_texture_idx(a, tile_type)).texture
         IN  [ok |-> TRUE,
              ratio |-> <<f32_div(F32One, f32_from_u32(texture.width \div s[1])),
                          f32_div(F32One, f32_from_u32(texture.height \div s[2]))>>]

\* ok = FALSE is a panic: of an unwrap on the way to the tile, or of
\* self.textures.get(texture_idx).unwrap() when the atlas has no texture for
\* the page of the frame
get_sprite_tex_ratio(a, tile_type) ==
    IF ~resolves(a, tile_type) THEN [ok |-> FALSE, ratio |-> NoRatio]
    ELSE IF ~get_texture(a, get_tile_texture_idx(a, tile_type)).ok
    THEN [ok |-> FALSE, ratio |-> NoRatio]
    ELSE LET s == sampling_size(a, tile_type)
             texture == get_texture(a, get_tile_texture_idx(a, tile_type)).texture
         IN  Only({ [ok |-> TRUE,
                     ratio |-> <<f32_div(F32One, cols), f32_div(F32One, rows)>>] :
                    cols \in {f32_div(f32_from_u32(texture.width),
                                      f32_from_u32(s[1]))},
                    rows \in {f32_div(f32_from_u32(texture.height),
                                      f32_from_u32(s[2]))} })

\* the cell of the tile at time msecs, as f32, times the texture ratio; it
\* panics where get_sprite_tex_ratio does
tex_coords(tex_ratio, cell) ==
    IF ~tex_ratio.ok THEN [ok |-> FALSE, offset |-> NoRatio]
    ELSE [ok |-> TRUE,
          offset |-> <<f32_mul(f32_from_u32(cell[1]), tex_ratio.ratio[1]),
                       f32_mul(f32_from_u32(cell[2]), tex_ratio.ratio[2])>>]

get_texture_offset(a, tile_type, msecs) ==
    Only({ tex_coords(tex_ratio,
                      IF tex_ratio.ok THEN texture_cell(a, tile_type, msecs)
                      ELSE <<0, 0>>) :
           tex_ratio \in {get_sprite_tex_ratio(a, tile_type)} })

(***************************************************************************)
(* Tile definition texts, toml_util and hash_str                          *)
(***************************************************************************)

MapRec(k, ts) == [file_path |-> k, tile_size |-> ts]
TileRec(k, off) == [atlas |-> k, offset |-> off]

\* A definition text: its [[maps]] and [[tiles]] records in file order, and
\* rev, which tells apart texts that differ only in layout or comments.
Texts ==
    { [maps |-> <<MapRec("a", <<24, 24>>)>>,
       tiles |-> <<TileRec("a", <<0, 0>>), TileRec("a", <<1, 0>>)>>,
       rev |-> 0],
      [maps |-> <<MapRec("a", <<24, 24>>)>>,
       tiles |-> <<TileRec("a", <<0, 0>>), TileRec("a", <<1, 0>>)>>,
       rev |-> 1],
      [maps |-> <<MapRec("b", <<48, 48>>), MapRec("c", <<24, 24>>)>>,
       tiles |-> <<TileRec("c", <<0, 0>>), TileRec("b", <<0, 1>>)>>,
       rev |-> 0],
      [maps |-> <<MapRec("a", <<24, 24>>), MapRec("b", <<48, 48>>),
                  MapRec("a", <<48, 48>>)>>,
       tiles |-> <<TileRec("b", <<0, 0>>), TileRec("a", <<0, 0>>),
                   TileRec("b", <<1, 1>>)>>,
       rev |-> 0],
      [maps |-> <<MapRec("a", <<24, 24>>)>>,
       tiles |-> <<TileRec("b", <<0, 0>>)>>,
       rev |-> 0],
      [maps |-> <<>>, tiles |-> <<>>, rev |-> 0] }

\* toml_util::toml_value_from_string and the two expect_value_in_table reads
toml_maps(text) == text.maps
toml_tiles(text) == text.tiles

\* more image paths, for texts of many pages
PageKeys == <<"p00", "p01", "p02", "p03", "p04", "p05", "p06", "p07", "p08",
              "p09", "p10", "p11">>

KeyCode(k) ==
    IF k = "a" THEN 97 ELSE IF k = "b" THEN 98 ELSE IF k = "c" THEN 99
    ELSE 100 + CHOOSE i \in DOMAIN PageKeys : PageKeys[i] = k

RECURSIVE map_chars(_, _)
map_chars(maps, i) ==
    IF i > Len(maps) THEN <<>>
    ELSE <<1, KeyCode(maps[i].file_path), maps[i].tile_size[1],
           maps[i].tile_size[2]>> \o map_chars(maps, i + 1)

RECURSIVE tile_chars(_, _)
tile_chars(tiles, i) ==
    IF i > Len(tiles) THEN <<>>
    ELSE <<2, KeyCode(tiles[i].atlas), tiles[i].offset[1],
           tiles[i].offset[2]>> \o tile_chars(tiles, i + 1)

\* the characters of the text
text_chars(text) ==
    map_chars(text.maps, 1) \o tile_chars(text.tiles, 1) \o <<3, text.rev>>

\* a digest of the characters, standing for Sha3::sha3_256 + result_str
mix(h, c) == (h * 257 + c + 1) % 65521

RECURSIVE digest(_, _, _)
digest(chars, i, h) ==
    IF i > Len(chars) THEN h
    ELSE IF i + 3 <= Len(chars)
    THEN Only({ digest(chars, i + 4, g) :
                g \in { mix(mix(mix(mix(h, chars[i]), chars[i + 1]),
                                chars[i + 2]), chars[i + 3]) } })
    ELSE Only({ digest(chars, i + 1, g) : g \in {mix(h, chars[i])} })

hash_str(text) == digest(text_chars(text), 1, 7)

(***************************************************************************)
(* TileAtlasConfig and the cache files                                     *)
(***************************************************************************)

\* TileAtlas::make_config
make_config(a, hash) ==
    [file_hash |-> hash, locations |-> a.locations, frames |-> a.frames]

\* TileAtlas::new
TileAtlas_new(locs, frms, textures) ==
    [locations |-> locs, frames |-> frms, textures |-> textures]

\* bincode::serialize, then File::create + write
write_tile_manager_config(config, d) ==
    IF d.exists
    THEN [ok |-> TRUE, dir |-> [d EXCEPT !.bin = config]]
    ELSE [ok |-> FALSE, dir |-> d]

\* File::open + bincode::deserialize; ok = FALSE is the unwrap that panics
load_tile_manager_config(d) ==
    IF d.exists /\ d.bin # NoBin /\ d.bin # EmptyBin
    THEN [ok |-> TRUE, config |-> d.bin]
    ELSE [ok |-> FALSE, config |-> NoBin]

\* decimal digits of a page index, as in format!("{}.png", idx)
RECURSIVE Digits(_)
Digits(n) == IF n < 10 THEN <<n>> ELSE Append(Digits(n \div 10), n % 10)

\* "<m>.png" sorts before "<n>.png" in the order glob yields paths
\* (alphabetical; '.' sorts before every digit)
RECURSIVE DigitsBefore(_, _, _)
DigitsBefore(dm, dn, i) ==
    IF i > Len(dm) THEN i <= Len(dn)
    ELSE IF i > Len(dn) THEN FALSE
    ELSE IF dm[i] # dn[i] THEN dm[i] < dn[i]
    ELSE DigitsBefore(dm, dn, i + 1)

NameBefore(m, n) == DigitsBefore(Digits(m), Digits(n), 1)

\* the page files of the directory in glob order
RECURSIVE glob_pngs(_)
glob_pngs(S) ==
    IF S = {} THEN <<>>
    ELSE LET first == CHOOSE m \in S : \A n \in S \ {m} : NameBefore(m, n)
         IN  <<first>> \o glob_pngs(S \ {first})

\* the loop over the paths glob yields: image::open(&path).unwrap() and
\* make_texture; ok = FALSE is the unwrap that panics on a file that holds no
\* image
RECURSIVE load_textures(_, _, _, _)
load_textures(d, names, i, textures) ==
    IF i > Len(names) THEN [ok |-> TRUE, textures |-> textures]
    ELSE IF d.pngs[names[i]] = EmptyPng
    THEN [ok |-> FALSE, textures |-> textures]
    ELSE load_textures(d, names, i + 1, Append(textures, d.pngs[names[i]]))

(***************************************************************************)
(* TileAtlas::build_from_toml and TileAtlas::from_config                   *)
(***************************************************************************)

\* the loop over [[maps]]: st = [status, b, calls]
RECURSIVE add_frames(_, _, _, _)
add_frames(st, maps, i, images) ==
    IF i > Len(maps) \/ st.status = "panic" THEN st
    ELSE LET r == add_frame(st.b, maps[i].file_path, maps[i].tile_size,
                            images[maps[i].file_path])
         IN  add_frames([status |-> IF r.status = "panic" THEN "panic" ELSE "ok",
                         b |-> r.b, calls |-> st.calls + r.calls],
                        maps, i + 1, images)

\* the AtlasTile of a tile record, which carries an offset only
tile_of(rec) == [offset |-> rec.offset, is_autotile |-> FALSE, tile_kind |-> Static]

\* a loop that numbers the tile records from 1
RECURSIVE add_tiles_from_one(_, _, _)
add_tiles_from_one(st, tiles, idx) ==
    IF idx >= Len(tiles) \/ st.status = "panic" THEN st
    ELSE LET r == add_tile(st.b, tiles[idx + 1].atlas, idx + 1,
                           tile_of(tiles[idx + 1]))
         IN  add_tiles_from_one([status |-> r.status, b |-> r.b,
                                 calls |-> st.calls],
                                tiles, idx + 1)

\* the loop over [[tiles]], idx counting the records from 0
RECURSIVE add_tiles(_, _, _)
add_tiles(st, tiles, idx) ==
    IF idx >= Len(tiles) \/ st.status = "panic" THEN st
    ELSE LET r == add_tile(st.b, tiles[idx + 1].atlas, idx, tile_of(tiles[idx + 1]))
         IN  add_tiles([status |-> r.status, b |-> r.b, calls |-> st.calls],
                       tiles, idx + 1)

\* the end of build_from_toml: the config blob is written after the pages
persist(s, r, hash) ==
    IF r.status = "panic"
    THEN [status |-> "panic", atlas |-> NoAtlas, dir |-> r.dir, b |-> s.b,
          calls |-> s.calls]
    ELSE [status |-> "ok", atlas |-> r.atlas,
          dir |-> write_tile_manager_config(make_config(r.atlas, hash), r.dir).dir,
          b |-> s.b, calls |-> s.calls]

\* s is the builder after the two loops; a panic in them ends the launch
\* before anything is written
build_and_persist(s, hash, d) ==
    IF s.status = "panic"
    THEN [status |-> "panic", atlas |-> NoAtlas, dir |-> d, b |-> s.b,
          calls |-> s.calls]
    ELSE Only({ persist(s, r, hash) : r \in {build(s.b, TRUE, d)} })

build_from_toml(text, d, images) ==
    Only({ build_and_persist(s2, hash_str(text), d) :
           s2 \in { add_tiles(s1, toml_tiles(text), 0) :
                    s1 \in { add_frames([status |-> "ok",
                                         b |-> TileAtlasBuilder_new,
                                         calls |-> 0],
                                        toml_maps(text), 1, images) } } })

\* a check that trusts whatever config it can load
compare_hash_trusting(cached, hash) ==
    IF ~cached.ok THEN "panic" ELSE "Reuse"

\* the check of cache.bin against the definition text
compare_hash(cached, hash) ==
    IF ~cached.ok THEN "panic"
    ELSE IF cached.config.file_hash # hash THEN "Rebuild"
    ELSE "Reuse"

\* what the gatekeeper does with the cache it finds
decide(text, d) ==
    IF ~d.exists THEN "Rebuild"
    ELSE compare_hash(load_tile_manager_config(d), hash_str(text))

\* the Reuse branch: the pages found by glob and the cached tables
reuse(cached_config, d) ==
    LET t == load_textures(d, glob_pngs(DOMAIN d.pngs), 1, <<>>)
    IN  IF t.ok
        THEN [status |-> "ok",
              atlas |-> TileAtlas_new(cached_config.locations,
                                      cached_config.frames, t.textures)]
        ELSE [status |-> "panic", atlas |-> NoAtlas]

with_decision(decision, r) ==
    [decision |-> decision, status |-> r.status, atlas |-> r.atlas,
     dir |-> r.dir, b |-> r.b, calls |-> r.calls]

from_config_as(decision, text, d, images, b) ==
    IF decision = "panic"
    THEN [decision |-> "panic", status |-> "panic", atlas |-> NoAtlas,
          dir |-> d, b |-> b, calls |-> 0]
    ELSE IF decision = "Rebuild"
    THEN with_decision("Rebuild", build_from_toml(text, d, images))
    ELSE Only({ [decision |-> "Reuse", status |-> r.status, atlas |-> r.atlas,
                 dir |-> d, b |-> b, calls |-> 0] :
                r \in {reuse(load_tile_manager_config(d).config, d)} })

from_config(text, d, images, b) ==
    Only({ from_config_as(decision, text, d, images, b) :
           decision \in {decide(text, d)} })

\* the builder after the two loops of build_from_toml
packed(text, images) ==
    Only({ add_tiles(s1, toml_tiles(text), 0) :
           s1 \in { add_frames([status |-> "ok", b |-> TileAtlasBuilder_new,
                                calls |-> 0],
                               toml_maps(text), 1, images) } })

\* The loop of build over the pages from page i on, stopped when the process
\* dies after j more file steps.  Each page takes two steps: File::create,
\* which leaves an empty <idx>.png, and image.save, which fills it.  left is
\* the number of steps not yet taken when the loop is through.
RECURSIVE interrupted_pages(_, _, _, _)
interrupted_pages(packers, i, d, j) ==
    IF j = 0 \/ i > Len(packers) THEN [ok |-> TRUE, dir |-> d, left |-> j]
    ELSE IF ~export(packers[i]).ok \/ ~d.exists
    THEN [ok |-> FALSE, dir |-> d, left |-> j]
    ELSE IF j = 1
    THEN [ok |-> TRUE,
          dir |-> [d EXCEPT !.pngs = Insert(d.pngs, i - 1, EmptyPng)],
          left |-> 0]
    ELSE interrupted_pages(packers, i + 1,
             [d EXCEPT !.pngs = Insert(d.pngs, i - 1, export(packers[i]).image)],
             j - 2)

\* The files a Rebuild leaves when the process dies after j of its file
\* steps.  The steps are, in order, File::create and save of each page file
\* and then File::create and write of cache.bin; a process that dies after
\* File::create of cache.bin leaves it empty, whatever it held before.  After
\* the last step the Rebuild is complete and no longer interrupted.  s is the
\* builder after the two loops.
interrupted_after(s, d, j) ==
    IF s.status = "panic"
    THEN [possible |-> FALSE, dir |-> d, b |-> s.b, calls |-> s.calls]
    ELSE Only({ [possible |-> r.ok /\ r.left <= 1,
                 dir |-> IF r.ok /\ r.left = 1
                         THEN [r.dir EXCEPT !.bin = EmptyBin]
                         ELSE r.dir,
                 b |-> s.b, calls |-> s.calls] :
                r \in { interrupted_pages(s.b.packers, 1, d, j) } })

interrupted(text, d, images, j) ==
    Only({ interrupted_after(s, d, j) :
           s \in {packed(text, images)} })

(***************************************************************************)
(* State                                                                   *)
(***************************************************************************)

VARIABLES
    disk,       \* the source images: path -> <<width, height>>
    locations,  \* TileAtlasBuilder.locations
    frames,     \* TileAtlasBuilder.frames
    packers,    \* TileAtlasBuilder.packers, one per page
    atlas,      \* the TileAtlas the last build / from_config returned
    dir,        \* the cache directory of the config
    lastOp,     \* the last builder call: its arguments and how it ended
    reg,        \* tile index -> arguments of the add_tile that registered it
    built,      \* build has returned an atlas from this builder
    nops,       \* number of builder calls made
    run,        \* the last gatekeeper launch: its input and what it did
    nruns,      \* number of gatekeeper launches
    sample      \* the last lookup on the atlas: its arguments and results

vars == <<disk, locations, frames, packers, atlas, dir, lastOp, reg, built,
          nops, run, nruns, sample>>

ImageSizes == {<<48, 48>>, <<1025, 1025>>, <<2049, 24>>}

Builder == [locations |-> locations, frames |-> frames, packers |-> packers]

NoTile == [offset |-> <<0, 0>>, is_autotile |-> FALSE, tile_kind |-> Static]

NoOp == [op |-> "new", key |-> "", tile_size |-> <<0, 0>>, index |-> 0,
         tile |-> NoTile, to_folder |-> FALSE, status |-> "ok", calls |-> 0,
         after_build |-> FALSE]

NoRun == [text |-> [maps |-> <<>>, tiles |-> <<>>, rev |-> -1],
          hash |-> -1, dir_before |-> FALSE, bin_before |-> FALSE,
          config_before |-> FALSE,
          hash_before |-> -1, decision |-> "none", status |-> "none",
          calls |-> 0, written |-> -1, mixed_before |-> FALSE,
          prev |-> [text |-> [maps |-> <<>>, tiles |-> <<>>, rev |-> -1],
                    decision |-> "none", status |-> "none", written |-> -1]]

NoSample == [status |-> "none", tile_type |-> -1, msecs |-> 0,
             tex_ratio |-> NoRatio, cell |-> <<0, 0>>, offset |-> NoRatio]

InitBuilder ==
    /\ locations = TileAtlasBuilder_new.locations
    /\ frames = TileAtlasBuilder_new.frames
    /\ packers = TileAtlasBuilder_new.packers
    /\ atlas = NoAtlas
    /\ lastOp = NoOp
    /\ reg = <<>>
    /\ built = FALSE
    /\ nops = 0
    /\ run = NoRun
    /\ nruns = 0
    /\ sample = NoSample

Init ==
    /\ disk \in [Keys -> ImageSizes]
    /\ dir = EmptyDir
    /\ InitBuilder

(***************************************************************************)
(* Builder calls                                                           *)
(***************************************************************************)

\* a call is made on a live builder: a panic unwinds and ends its use
CanCall == nops < MaxOps /\ lastOp.status # "panic"

AddFrame(key, tile_size) ==
    /\ CanCall
    /\ LET r == add_frame(Builder, key, tile_size, disk[key])
       IN  /\ locations' = r.b.locations
           /\ frames' = r.b.frames
           /\ packers' = r.b.packers
           /\ lastOp' = [NoOp EXCEPT !.op = "add_frame", !.key = key,
                                     !.tile_size = tile_size,
                                     !.status = r.status, !.calls = r.calls,
                                     !.after_build = built]
    /\ nops' = nops + 1
    /\ UNCHANGED <<disk, atlas, dir, reg, built, run, nruns, sample>>

AddTile(key, index, tile_data) ==
    /\ CanCall
    /\ LET r == add_tile(Builder, key, index, tile_data)
       IN  /\ locations' = r.b.locations
           /\ frames' = r.b.frames
           /\ packers' = r.b.packers
           /\ lastOp' = [NoOp EXCEPT !.op = "add_tile", !.key = key,
                                     !.index = index, !.tile = tile_data,
                                     !.status = r.status,
                                     !.after_build = built]
           /\ reg' = IF r.status = "ok"
                     THEN Insert(reg, index, [key |-> key, tile |-> tile_data])
                     ELSE reg
    /\ nops' = nops + 1
    /\ UNCHANGED <<disk, atlas, dir, built, run, nruns, sample>>

Build(to_folder) ==
    /\ CanCall
    /\ LET r == build(Builder, to_folder, dir)
       IN  /\ atlas' = IF r.status = "ok" THEN r.atlas ELSE atlas
           /\ locations' = r.b.locations
           /\ frames' = r.b.frames
           /\ packers' = r.b.packers
           /\ dir' = r.dir
           /\ built' = (built \/ r.status = "ok")
           /\ lastOp' = [NoOp EXCEPT !.op = "build", !.to_folder = to_folder,
                                     !.status = r.status,
                                     !.after_build = built]
    /\ nops' = nops + 1
    /\ UNCHANGED <<disk, reg, run, nruns, sample>>

Next ==
    \/ \E key \in Keys, tile_size \in TileSizes : AddFrame(key, tile_size)
    \/ \E key \in Keys, index \in Indices, tile_data \in TileData :
           AddTile(key, index, tile_data)
    \/ \E to_folder \in BOOLEAN : Build(to_folder)

Spec == Init /\ [][Next]_vars

(***************************************************************************)
(* Properties of the builder                                               *)
(***************************************************************************)

\* the step is one builder call (the call described by lastOp')
Called(op) == nops' = nops + 1 /\ lastOp'.op = op

\* C1: add_frame with a source key that already has a frame changes nothing:
\* the frames (so the key's one frame, its rect, page index, tile size and
\* tiles), the locations and the packers stay as they are and the packer is
\* not invoked, whatever tile size the second call passes.
C1_AddFrameIdempotent ==
    [][(Called("add_frame") /\ lastOp'.key \in DOMAIN frames)
       => /\ lastOp'.status = "noop"
          /\ lastOp'.calls = 0
          /\ frames' = frames
          /\ locations' = locations
          /\ packers' = packers]_vars

\* a repeated add_frame that passed another tile size than the frame has
C1_Witness ==
    /\ lastOp.op = "add_frame"
    /\ lastOp.status = "noop"
    /\ lastOp.key \in DOMAIN frames
    /\ frames[lastOp.key].tile_size # lastOp.tile_size
    /\ DOMAIN frames[lastOp.key].offsets # {}

AllOnPage0(frms) == \A k \in DOMAIN frms : frms[k].texture_idx = 0

RECURSIVE SumArea(_, _)
SumArea(frms, S) ==
    IF S = {} THEN 0
    ELSE LET k == CHOOSE x \in S : TRUE
         IN  frms[k].rect.w * frms[k].rect.h + SumArea(frms, S \ {k})

\* C2 as stated: while the total area of the images added fits the area of
\* one page, every frame is on page 0 and there is one page.
C2_AreaFitsOnePage ==
    (lastOp.status # "panic" /\ SumArea(frames, DOMAIN frames) <= MaxWidth * MaxHeight)
    => (Len(packers) = 1 /\ AllOnPage0(frames))

\* C2 amended: as long as page 0's packer accepts each new image when it is
\* added, every frame is on page 0 and the builder has exactly one page; a
\* page is opened only by an add_frame none of whose pages accepts the image.
C2_NoPageBeforeFailureToFit ==
    [][/\ (Len(packers') = 1 => AllOnPage0(frames'))
       /\ (Called("add_frame") /\ lastOp'.key \notin DOMAIN frames
           /\ Len(packers) = 1 /\ can_pack(packers[1], disk[lastOp'.key]))
          => (lastOp'.status = "ok" /\ Len(packers') = 1 /\ AllOnPage0(frames'))
       /\ (Len(packers') > Len(packers))
          => /\ Called("add_frame")
             /\ Len(packers') = Len(packers) + 1
             /\ \A i \in 1..Len(packers) :
                    ~can_pack(packers[i], disk[lastOp'.key])]_vars

\* three images accepted by page 0 one after the other
C2_Witness ==
    /\ Cardinality(DOMAIN frames) = 3
    /\ Len(packers) = 1
    /\ AllOnPage0(frames)
    /\ lastOp.op = "add_frame" /\ lastOp.status = "ok"

\* C3: right after build, every registered tile index resolves in the atlas
\* (locations[index], then frames[that].offsets[index]) to the source key and
\* the tile data of the add_tile call that registered it.
C3_BuiltTilesAsAdded ==
    (lastOp.op = "build" /\ lastOp.status = "ok")
    => /\ DOMAIN atlas.locations = DOMAIN reg
       /\ \A i \in DOMAIN reg :
              /\ atlas.locations[i] = reg[i].key
              /\ atlas.locations[i] \in DOMAIN atlas.frames
              /\ i \in DOMAIN get_frame(atlas, i).offsets
              /\ get_tile(atlas, i) = reg[i].tile

\* an atlas built with two tiles of different data
C3_Witness ==
    /\ lastOp.op = "build" /\ lastOp.status = "ok"
    /\ DOMAIN reg = {0, 1}
    /\ reg[0].tile # reg[1].tile
    /\ get_tile(atlas, 1) = reg[1].tile

Resolves(locs, frms) ==
    \A i \in DOMAIN locs :
        /\ locs[i] \in DOMAIN frms
        /\ i \in DOMAIN frms[locs[i]].offsets

\* C4: in the builder and in the built atlas every tile index of locations
\* names a source key with a frame whose tile map holds the index.
C4_LocationsResolve ==
    /\ Resolves(locations, frames)
    /\ Resolves(atlas.locations, atlas.frames)

\* a built atlas with a tile, and a builder that moved on to a second tile
C4_Witness ==
    /\ built
    /\ DOMAIN atlas.locations # {}
    /\ Cardinality(DOMAIN locations) > Cardinality(DOMAIN atlas.locations)

Holders(frms, i) == {k \in DOMAIN frms : i \in DOMAIN frms[k].offsets}

\* C5 as stated: no tile index is in the tile map of more than one frame, and
\* the frame holding it is frames[locations[index]].
C5_TileIndexInOneFrame ==
    \A i \in Indices :
        /\ Cardinality(Holders(frames, i)) <= 1
        /\ Holders(frames, i) # {} =>
               (i \in DOMAIN locations /\ Holders(frames, i) = {locations[i]})

\* C6: add_tile for a source key without a frame, or for an index the frame
\* already holds, panics and leaves locations and every tile map unchanged.
C6_AddTileFailsBeforeMutation ==
    [][(Called("add_tile")
        /\ (lastOp'.key \notin DOMAIN frames
            \/ lastOp'.index \in DOMAIN frames[lastOp'.key].offsets))
       => /\ lastOp'.status = "panic"
          /\ locations' = locations
          /\ frames' = frames]_vars

\* an add_tile refused for an index its frame already holds
C6_Witness ==
    /\ lastOp.op = "add_tile"
    /\ lastOp.status = "panic"
    /\ lastOp.key \in DOMAIN frames
    /\ lastOp.index \in DOMAIN frames[lastOp.key].offsets
    /\ frames[lastOp.key].offsets[lastOp.index] # lastOp.tile

\* C7 as stated: once build has returned an atlas, the builder accepts no
\* further add_frame, add_tile or build.
C7_BuiltIsTerminal ==
    lastOp.after_build => lastOp.status = "panic"

\* C7 amended: build does not end the builder's life.  After build the
\* builder accepts add_frame, add_tile and build under the same conditions as
\* before: a new key whose image a page can take gets its frame, a free index
\* of an existing frame gets its tile, and a further build of a builder with
\* frames returns an atlas of the builder's current tables.
C7_BuilderUsableAfterBuild ==
    [][(built /\ nops' = nops + 1)
       => /\ lastOp'.after_build
          /\ (lastOp'.op = "add_frame" /\ lastOp'.key \notin DOMAIN frames
              /\ can_pack(new_skyline, disk[lastOp'.key]))
             => (lastOp'.status = "ok" /\ lastOp'.key \in DOMAIN frames')
          /\ (lastOp'.op = "add_tile" /\ lastOp'.key \in DOMAIN frames
              /\ lastOp'.index \notin DOMAIN frames[lastOp'.key].offsets)
             => (lastOp'.status = "ok" /\ locations'[lastOp'.index] = lastOp'.key)
          /\ (lastOp'.op = "build" /\ (lastOp'.to_folder => dir.exists))
             => /\ lastOp'.status = "ok"
                /\ atlas'.locations = locations
                /\ atlas'.frames = frames
                /\ Len(atlas'.textures) = Len(packers)]_vars

\* a second build, to the cache folder, after a tile was added to the built
\* builder
C7_Witness ==
    /\ lastOp.op = "build" /\ lastOp.after_build /\ lastOp.status = "ok"
    /\ lastOp.to_folder
    /\ atlas.locations = locations
    /\ DOMAIN locations # {}
    /\ DOMAIN dir.pngs # {}

\* the pages (1-based positions) whose packer accepts the image of a key
Fits(key) == { p \in 1..Len(packers) : can_pack(packers[p], disk[key]) }

\* C15: add_frame with a new key places the image on the first page, in the
\* order the pages were created, whose packer accepts it; only when no page
\* accepts it is one page appended, and the frame is on that last page.  The
\* frames placed before keep their page index and rect, and the other pages
\* their contents.
C15_FirstFitPlacement ==
    [][(Called("add_frame") /\ lastOp'.key \notin DOMAIN frames
        /\ lastOp'.status = "ok")
       => /\ DOMAIN frames' = DOMAIN frames \cup {lastOp'.key}
          /\ IF Fits(lastOp'.key) # {}
             THEN /\ Len(packers') = Len(packers)
                  /\ frames'[lastOp'.key].texture_idx + 1 \in Fits(lastOp'.key)
                  /\ \A p \in Fits(lastOp'.key) :
                         frames'[lastOp'.key].texture_idx + 1 <= p
             ELSE /\ Len(packers') = Len(packers) + 1
                  /\ frames'[lastOp'.key].texture_idx = Len(packers') - 1
          /\ \E j \in DOMAIN packers'[frames'[lastOp'.key].texture_idx + 1].frames :
                 LET f == packers'[frames'[lastOp'.key].texture_idx + 1].frames[j]
                 IN  /\ f.key = lastOp'.key
                     /\ AtlasRect_from(f.rect) = frames'[lastOp'.key].rect
          /\ \A k \in DOMAIN frames :
                 /\ frames'[k].texture_idx = frames[k].texture_idx
                 /\ frames'[k].rect = frames[k].rect
          /\ \A p \in 1..Len(packers) :
                 p # frames'[lastOp'.key].texture_idx + 1
                 => packers'[p] = packers[p]]_vars

\* the third frame was placed on page 0 of two pages, both of which accept it
C15_Witness ==
    /\ lastOp.op = "add_frame" /\ lastOp.status = "ok"
    /\ Len(packers) = 2
    /\ Cardinality(DOMAIN frames) = 3
    /\ frames[lastOp.key].texture_idx = 0
    /\ \E k \in DOMAIN frames : frames[k].texture_idx = 1
    /\ can_pack(packers[2], disk[lastOp.key])

\* C16: build leaves the builder's locations, frames and pages as they are
\* and returns an atlas holding the locations and frames of that moment; an
\* add_frame or add_tile on the builder after build leaves the locations and
\* frames of the returned atlas unchanged.
C16_BuiltAtlasIsFrozenCopy ==
    [][/\ Called("build")
          => /\ locations' = locations
             /\ frames' = frames
             /\ packers' = packers
             /\ lastOp'.status = "ok"
                => /\ atlas'.locations = locations
                   /\ atlas'.frames = frames
       /\ (built /\ (Called("add_frame") \/ Called("add_tile")))
          => /\ atlas'.locations = atlas.locations
             /\ atlas'.frames = atlas.frames]_vars

\* after build an add_frame and an add_tile were accepted: the builder has a
\* frame and a tile the returned atlas does not have
C16_Witness ==
    /\ built /\ atlas # NoAtlas
    /\ lastOp.op = "add_tile" /\ lastOp.status = "ok" /\ lastOp.after_build
    /\ lastOp.index \notin DOMAIN atlas.locations
    /\ lastOp.key \notin DOMAIN atlas.frames
    /\ lastOp.index \in DOMAIN locations
    /\ lastOp.key \in DOMAIN frames

\* C20: in every state of the builder each frame's page index is below the
\* number of pages and there is at least one page; build returns one texture
\* per page, in page order; so in the atlas build returned
\* get_texture(get_tile_texture_idx(i)) succeeds for every registered tile
\* index i, and yields the image of the frame's page.
C20_PageIndicesInRange ==
    /\ [](/\ Len(packers) >= 1
          /\ \A k \in DOMAIN frames :
                 frames[k].texture_idx \in 0..(Len(packers) - 1)
          /\ \A i \in DOMAIN atlas.locations :
                 /\ get_texture(atlas, get_tile_texture_idx(atlas, i)).ok
                 /\ \E j \in DOMAIN get_texture(atlas,
                                       get_tile_texture_idx(atlas, i)).texture.frames :
                        get_texture(atlas, get_tile_texture_idx(atlas, i))
                            .texture.frames[j].key = atlas.locations[i])
    /\ [][(Called("build") /\ lastOp'.status = "ok")
          => /\ Len(atlas'.textures) = Len(packers)
             /\ \A p \in 1..Len(packers) :
                    atlas'.textures[p] = export(packers[p]).image]_vars

\* a built atlas of two pages with a tile in the frame on the last page
C20_Witness ==
    /\ built /\ lastOp.op = "build" /\ lastOp.status = "ok"
    /\ Len(atlas.textures) = 2
    /\ \E i \in DOMAIN atlas.locations :
           /\ get_tile_texture_idx(atlas, i) = 1
           /\ get_texture(atlas, 1).ok

(***************************************************************************)
(* Gatekeeper launches                                                     *)
(***************************************************************************)

\* a page file of an earlier build, by some other definition text
StalePage == [width |-> 24, height |-> 24,
              frames |-> <<[key |-> "a",
                            rect |-> [x |-> 0, y |-> 0, w |-> 24, h |-> 24]]>>]

StaleBin == [file_hash |-> 0, locations |-> <<>>, frames |-> <<>>]

\* the cache directories a launch may find
CacheDirs ==
    { NoDir,
      EmptyDir,
      [exists |-> TRUE, bin |-> NoBin, pngs |-> Insert(<<>>, 0, StalePage)],
      [exists |-> TRUE, bin |-> StaleBin, pngs |-> <<>>],
      [exists |-> TRUE, bin |-> StaleBin, pngs |-> Insert(<<>>, 0, StalePage)] }

\* cache.bin and every page file are whole, and every frame of the persisted
\* config is on the page file of its page index, at its rect: the page files
\* are those of the build that wrote cache.bin
CacheConsistent(d) ==
    d.bin # NoBin =>
        /\ d.bin # EmptyBin
        /\ \A i \in DOMAIN d.pngs : d.pngs[i] # EmptyPng
        /\ \A key \in DOMAIN d.bin.frames :
              /\ d.bin.frames[key].texture_idx \in DOMAIN d.pngs
              /\ \E j \in DOMAIN d.pngs[d.bin.frames[key].texture_idx].frames :
                     LET f == d.pngs[d.bin.frames[key].texture_idx].frames[j]
                     IN  f.key = key /\ AtlasRect_from(f.rect) = d.bin.frames[key].rect

InitCache ==
    /\ disk \in [Keys -> ImageSizes]
    /\ dir \in CacheDirs
    /\ InitBuilder

\* one launch of the program: TileAtlas::from_config on the definition text
FromConfig(text) ==
    /\ nruns < MaxRuns
    /\ \E r \in {from_config(text, dir, disk, Builder)} :
           /\ atlas' = r.atlas
           /\ dir' = r.dir
           /\ locations' = r.b.locations
           /\ frames' = r.b.frames
           /\ packers' = r.b.packers
           /\ run' = [text |-> text,
                      hash |-> hash_str(text),
                      dir_before |-> dir.exists,
                      bin_before |-> (dir.bin # NoBin),
                      config_before |-> load_tile_manager_config(dir).ok,
                      hash_before |-> dir.bin.file_hash,
                      decision |-> r.decision,
                      status |-> r.status,
                      calls |-> r.calls,
                      written |-> -1,
                      mixed_before |-> ~CacheConsistent(dir),
                      prev |-> [text |-> run.text, decision |-> run.decision,
                                status |-> run.status, written |-> run.written]]
    /\ nruns' = nruns + 1
    /\ UNCHANGED <<disk, lastOp, reg, built, nops, sample>>

\* a launch whose Rebuild is killed after j of its file steps
Crash(text, j) ==
    /\ nruns < MaxRuns
    /\ decide(text, dir) = "Rebuild"
    /\ \E r \in {interrupted(text, dir, disk, j)} :
           /\ r.possible
           /\ atlas' = NoAtlas
           /\ dir' = r.dir
           /\ locations' = r.b.locations
           /\ frames' = r.b.frames
           /\ packers' = r.b.packers
           /\ run' = [text |-> text,
                      hash |-> hash_str(text),
                      dir_before |-> dir.exists,
                      bin_before |-> (dir.bin # NoBin),
                      config_before |-> load_tile_manager_config(dir).ok,
                      hash_before |-> dir.bin.file_hash,
                      decision |-> "Rebuild",
                      status |-> "crashed",
                      calls |-> r.calls,
                      written |-> j,
                      mixed_before |-> ~CacheConsistent(dir),
                      prev |-> [text |-> run.text, decision |-> run.decision,
                                status |-> run.status, written |-> run.written]]
    /\ nruns' = nruns + 1
    /\ UNCHANGED <<disk, lastOp, reg, built, nops, sample>>

NextCache ==
    \/ \E text \in Texts : FromConfig(text)
    \/ \E text \in Texts, j \in 0..(2 * Cardinality(Keys) + 1) : Crash(text, j)

SpecCache == InitCache /\ [][NextCache]_vars


(***************************************************************************)
(* Properties of the gatekeeper                                            *)
(***************************************************************************)

\* C8: a launch that finds a persisted config whose stored hash differs from
\* the digest of the definition text chooses Rebuild; Reuse is chosen only
\* when a persisted config's stored hash equals the digest of the text.
C8_HashMismatchRebuilds ==
    /\ (run.config_before /\ run.hash_before # run.hash)
       => run.decision = "Rebuild"
    /\ run.decision = "Reuse" => (run.config_before /\ run.hash_before = run.hash)

\* a Rebuild over the config an earlier launch persisted for another text
C8_Witness ==
    /\ run.decision = "Rebuild"
    /\ run.config_before /\ run.hash_before # run.hash
    /\ run.prev.decision = "Rebuild" /\ run.prev.status = "ok"
    /\ run.prev.text # run.text

\* C9 as stated: a launch that finds no cache.bin chooses Rebuild, whatever
\* else the cache directory holds.
C9_NoConfigRebuilds ==
    (run.decision # "none" /\ ~run.bin_before) => run.decision = "Rebuild"

Times == {0, 100, 250}

\* C10 as stated: the launch after a completed Rebuild, given the same
\* definition text, chooses Reuse, invokes no packer and returns an atlas with
\* the locations and frames of the rebuilt one, so that every tile index has
\* the same texture cell at every time.
C10_CacheIdempotence ==
    [][(nruns' = nruns + 1 /\ run.decision = "Rebuild" /\ run.status = "ok"
        /\ run'.text = run.text)
       => /\ run'.decision = "Reuse"
          /\ run'.status = "ok"
          /\ run'.calls = 0
          /\ atlas'.locations = atlas.locations
          /\ atlas'.frames = atlas.frames
          /\ \A i \in DOMAIN atlas.locations : \A msecs \in Times :
                 texture_cell(atlas', i, msecs) = texture_cell(atlas, i, msecs)]_vars

\* C11 as stated: the launch after a Rebuild that was killed between its file
\* writes and left a cache.bin and page files that are not those of one
\* completed build chooses Rebuild, whatever definition text it is given.
C11_CrashThenRebuild ==
    (run.prev.status = "crashed" /\ run.mixed_before) => run.decision = "Rebuild"

\* C12: after a Rebuild over a text with n tile records the registered tile
\* indices are exactly 0..n-1, and index i is located in the frame whose
\* source key is the atlas field of the i-th record (counting from 0), with
\* that record's offset.
C12_TileIndicesSequential ==
    (run.decision = "Rebuild" /\ run.status = "ok")
    => /\ DOMAIN atlas.locations = 0..(Len(toml_tiles(run.text)) - 1)
       /\ \A i \in DOMAIN atlas.locations :
              /\ atlas.locations[i] = toml_tiles(run.text)[i + 1].atlas
              /\ i \in DOMAIN get_frame(atlas, i).offsets
              /\ get_tile(atlas, i).offset = toml_tiles(run.text)[i + 1].offset

\* a completed Rebuild over three tile records that name two frames, not in
\* the order of the frames
C12_Witness ==
    /\ run.decision = "Rebuild" /\ run.status = "ok"
    /\ Len(toml_tiles(run.text)) = 3
    /\ DOMAIN atlas.locations = {0, 1, 2}
    /\ atlas.locations[0] # atlas.locations[1]
    /\ atlas.locations[2] = atlas.locations[0]

(***************************************************************************)
(* Lookups on a built atlas                                                *)
(***************************************************************************)

LookupTiles ==
    { [offset |-> <<0, 0>>, is_autotile |-> FALSE, tile_kind |-> Static],
      [offset |-> <<0, 1>>, is_autotile |-> TRUE, tile_kind |-> Static],
      [offset |-> <<1, 0>>, is_autotile |-> FALSE, tile_kind |-> Animated(4, 100)],
      [offset |-> <<2, 1>>, is_autotile |-> FALSE, tile_kind |-> Animated(3, 250)],
      [offset |-> <<1, 1>>, is_autotile |-> TRUE, tile_kind |-> Animated(4, 100)] }

LookupTimes == {0, 99, 250, 450, 700}

LookupIndices == {0, 1, 2}

Panicked(S) == IF "panic" \in S THEN "panic" ELSE "ok"

\* add_frame of a and of b on a new builder
two_frames(images, ts_a, ts_b) ==
    Only({ Only({ [status |-> Panicked({s1.status, s2.status}), b |-> s2.b] :
                  s2 \in {add_frame(s1.b, "b", ts_b, images["b"])} }) :
           s1 \in {add_frame(TileAtlasBuilder_new, "a", ts_a, images["a"])} })

\* add_tile of tile 0 in frame a and of tile 1 in frame b
two_tiles(s, t0, t1) ==
    Only({ Only({ [status |-> Panicked({s.status, s3.status, s4.status}),
                   b |-> s4.b] :
                  s4 \in {add_tile(s3.b, "b", 1, t1)} }) :
           s3 \in {add_tile(s.b, "a", 0, t0)} })

\* the builder given the two frames and the two tiles, and the atlas it builds
built_atlas(images, ts_a, ts_b, t0, t1) ==
    Only({ Only({ [status |-> Panicked({s.status, r.status}), b |-> s.b,
                   atlas |-> r.atlas] :
                  r \in {build(s.b, FALSE, EmptyDir)} }) :
           s \in {two_tiles(two_frames(images, ts_a, ts_b), t0, t1)} })

InitLookup ==
    /\ disk \in [Keys -> ImageSizes]
    /\ \E ts_a \in TileSizes, ts_b \in TileSizes :
       \E t0 \in LookupTiles, t1 \in LookupTiles :
       \E r \in {built_atlas(disk, ts_a, ts_b, t0, t1)} :
           /\ r.status = "ok"
           /\ locations = r.b.locations
           /\ frames = r.b.frames
           /\ packers = r.b.packers
           /\ atlas = r.atlas
           /\ reg = Insert(Insert(<<>>, 0, [key |-> "a", tile |-> t0]),
                           1, [key |-> "b", tile |-> t1])
    /\ dir = EmptyDir
    /\ lastOp = [NoOp EXCEPT !.op = "build"]
    /\ built = TRUE
    /\ nops = 0
    /\ run = NoRun
    /\ nruns = 0
    /\ sample = NoSample

\* TileAtlas::get_sprite_tex_ratio and TileAtlas::get_texture_offset for a
\* tile index at a time; an index that was never registered fails the unwrap
\* in get_frame
GetTextureOffset(tile_type, msecs) ==
    /\ \E r \in {get_texture_offset(atlas, tile_type, msecs)} :
           sample' = IF r.ok
                     THEN [status |-> "ok", tile_type |-> tile_type,
                           msecs |-> msecs,
                           tex_ratio |-> get_sprite_tex_ratio(atlas, tile_type).ratio,
                           cell |-> texture_cell(atlas, tile_type, msecs),
                           offset |-> r.offset]
                     ELSE [NoSample EXCEPT !.status = "panic",
                                           !.tile_type = tile_type,
                                           !.msecs = msecs]
    /\ UNCHANGED <<disk, locations, frames, packers, atlas, dir, lastOp, reg,
                   built, nops, run, nruns>>

NextLookup ==
    \E tile_type \in LookupIndices, msecs \in LookupTimes :
        GetTextureOffset(tile_type, msecs)

SpecLookup == InitLookup /\ [][NextLookup]_vars

(***************************************************************************)
(* Properties of the lookups                                               *)
(***************************************************************************)

\* the tile a sample was taken of, its frame, and the frame's place in the
\* tile grid of the page
SampleTile == get_tile(atlas, sample.tile_type)
SampleFrame == get_frame(atlas, sample.tile_type)
GridOffset == get_add_offset(SampleFrame.rect, SampleFrame.tile_size)
CurrentFrame ==
    (sample.msecs \div SampleTile.tile_kind.delay) % SampleTile.tile_kind.frame_count

\* the atlas with the sampled tile made Static
StaticAtlas ==
    [atlas EXCEPT !.frames =
        Insert(atlas.frames, atlas.locations[sample.tile_type],
               [SampleFrame EXCEPT !.offsets =
                   Insert(SampleFrame.offsets, sample.tile_type,
                          [SampleTile EXCEPT !.tile_kind = Static])])]

\* C13: for a tile that is Animated(frameCount, delayMillis) and no autotile
\* the column cell index at nowMillis is the column cell index the tile would
\* have as a Static tile plus currentFrame = (nowMillis / delayMillis) mod
\* frameCount, which is in 0..frameCount-1; the row cell index is that of the
\* Static tile.
C13_AnimatedAdvance ==
    (sample.status = "ok" /\ SampleTile.tile_kind.tag = "Animated"
     /\ ~SampleTile.is_autotile)
    => /\ CurrentFrame \in 0..(SampleTile.tile_kind.frame_count - 1)
       /\ sample.cell[1] =
              texture_cell(StaticAtlas, sample.tile_type, sample.msecs)[1]
              + CurrentFrame
       /\ sample.cell[2] =
              texture_cell(StaticAtlas, sample.tile_type, sample.msecs)[2]
       /\ sample.offset = <<f32_mul(f32_from_u32(sample.cell[1]), sample.tex_ratio[1]),
                            f32_mul(f32_from_u32(sample.cell[2]), sample.tex_ratio[2])>>

\* a sample of an animated tile, in a frame that is not at the origin of its
\* page, at a time when the animation has wrapped around and is past frame 0
C13_Witness ==
    /\ sample.status = "ok"
    /\ SampleTile.tile_kind.tag = "Animated" /\ ~SampleTile.is_autotile
    /\ sample.msecs \div SampleTile.tile_kind.delay >= SampleTile.tile_kind.frame_count
    /\ CurrentFrame >= 1
    /\ GridOffset[1] >= 1

\* C14 as stated: for an animated autotile the column cell index is
\* 2 * (offset.col + gridOffset.col) plus the animation advance 2 * currentFrame,
\* the advance being added after the scaling by 2 and not scaled again; the
\* row cell index is 2 * (offset.row + gridOffset.row).
C14_AdvanceAddedAfterScaling ==
    (sample.status = "ok" /\ SampleTile.tile_kind.tag = "Animated"
     /\ SampleTile.is_autotile)
    => /\ sample.cell[1] = 2 * (SampleTile.offset[1] + GridOffset[1])
                           + 2 * CurrentFrame
       /\ sample.cell[2] = 2 * (SampleTile.offset[2] + GridOffset[2])

\* C14: for an animated autotile the animation advance 2 * currentFrame is
\* added to offset.col + gridOffset.col before the scaling by 2, so the column
\* cell index is 2 * (offset.col + gridOffset.col + 2 * currentFrame), four
\* cells per animation frame; the row cell index is
\* 2 * (offset.row + gridOffset.row).
C14_AdvanceScaledWithBase ==
    (sample.status = "ok" /\ SampleTile.tile_kind.tag = "Animated"
     /\ SampleTile.is_autotile)
    => /\ sample.cell[1] = 2 * (SampleTile.offset[1] + GridOffset[1]
                                + 2 * CurrentFrame)
       /\ sample.cell[1] = 2 * (SampleTile.offset[1] + GridOffset[1])
                           + 4 * CurrentFrame
       /\ sample.cell[2] = 2 * (SampleTile.offset[2] + GridOffset[2])

\* a sample of an animated autotile past frame 0, in a frame that is not at
\* the origin of its page
C14_Witness ==
    /\ sample.status = "ok"
    /\ SampleTile.tile_kind.tag = "Animated" /\ SampleTile.is_autotile
    /\ CurrentFrame >= 1
    /\ GridOffset[1] >= 1
    /\ sample.cell[1] = 2 * (SampleTile.offset[1] + GridOffset[1])
                        + 4 * CurrentFrame

\* the page a sample was taken of and the sampling size of the tile
SamplePage == get_texture(atlas, get_tile_texture_idx(atlas, sample.tile_type)).texture
EffectiveTileSize ==
    IF SampleTile.is_autotile
    THEN <<SampleFrame.tile_size[1] \div 2, SampleFrame.tile_size[2] \div 2>>
    ELSE SampleFrame.tile_size

\* the number of f32 values to step through from one number to another; two
\* values more than a binade apart, or not both numbers, count as 2^24
f32_ulps(x, y) ==
    IF x = y THEN 0
    ELSE IF x.tag # "num" \/ y.tag # "num" THEN Two24
    ELSE IF x.e = y.e THEN (IF x.m > y.m THEN x.m - y.m ELSE y.m - x.m)
    ELSE IF x.e = y.e + 1 THEN (x.m - Two23) + (Two24 - y.m)
    ELSE IF y.e = x.e + 1 THEN (y.m - Two23) + (Two24 - x.m)
    ELSE Two24

\* 1 / floor(dimension / size) and size / dimension, each rounded to f32 once
OneOverFloor(dimension, size) ==
    f32_div(F32One, f32_from_u32(dimension \div size))
TileOverPage(dimension, size) ==
    f32_div(f32_from_u32(size), f32_from_u32(dimension))

\* C19 as stated: the sampling ratio of each axis is one over the whole number
\* of sampling cells that fit the page, 1 / floor(pageWidth / effectiveTileSize.w)
\* and 1 / floor(pageHeight / effectiveTileSize.h), also when the tile size
\* does not divide the page dimension.
C19_RatioIsOneOverFloor ==
    sample.status = "ok"
    => /\ sample.tex_ratio[1] = OneOverFloor(SamplePage.width, EffectiveTileSize[1])
       /\ sample.tex_ratio[2] = OneOverFloor(SamplePage.height, EffectiveTileSize[2])

\* C19: the sampling ratio of each axis is effectiveTileSize / page dimension,
\* with no rounding of the number of cells.  It is the f32 reciprocal of the
\* f32 quotient page dimension / effectiveTileSize, which is within two f32
\* steps of effectiveTileSize / page dimension, and it is
\* 1 / floor(page dimension / effectiveTileSize) exactly when the effective
\* tile size divides the page dimension.  effectiveTileSize is the frame's
\* tile size, halved in both axes for an autotile.
C19_RatioIsTileOverPage ==
    sample.status = "ok"
    => /\ f32_ulps(sample.tex_ratio[1],
                   TileOverPage(SamplePage.width, EffectiveTileSize[1])) <= 2
       /\ f32_ulps(sample.tex_ratio[2],
                   TileOverPage(SamplePage.height, EffectiveTileSize[2])) <= 2
       /\ sample.tex_ratio[1] = OneOverFloor(SamplePage.width, EffectiveTileSize[1])
          <=> SamplePage.width % EffectiveTileSize[1] = 0
       /\ sample.tex_ratio[2] = OneOverFloor(SamplePage.height, EffectiveTileSize[2])
          <=> SamplePage.height % EffectiveTileSize[2] = 0

\* a sample of an autotile on a page whose width is no multiple of the halved
\* tile size, where the two roundings of the ratio show: it is one f32 step
\* off effectiveTileSize.w / pageWidth rounded once
C19_Witness ==
    /\ sample.status = "ok"
    /\ SampleTile.is_autotile
    /\ SamplePage.width % EffectiveTileSize[1] # 0
    /\ f32_ulps(sample.tex_ratio[1],
                TileOverPage(SamplePage.width, EffectiveTileSize[1])) = 1

(***************************************************************************)
(* Launches over definition texts of many pages                            *)
(***************************************************************************)

\* the texts name the first n of these images, each of which takes a page of
\* its own
PageCounts == {2, 11, 12}

page_text(n, rev) ==
    [maps |-> [i \in 1..n |-> MapRec(PageKeys[i], <<24, 24>>)],
     tiles |-> <<TileRec(PageKeys[n], <<0, 0>>), TileRec(PageKeys[1], <<1, 0>>)>>,
     rev |-> rev]

PageTexts == { page_text(n, rev) : n \in PageCounts, rev \in {0, 1} }

InitPages ==
    /\ disk \in { [k \in {PageKeys[i] : i \in DOMAIN PageKeys} |->
                      IF k = PageKeys[2] THEN s ELSE <<1025, 1025>>] :
                  s \in {<<48, 48>>, <<1025, 1025>>} }
    /\ dir \in { d \in CacheDirs : d.exists /\ d.bin # NoBin }
    /\ InitBuilder

NextPages == \E text \in PageTexts : FromConfig(text)

SpecPages == InitPages /\ [][NextPages]_vars

\* C17 as stated: on Reuse texture handle i of the reconstructed atlas is the
\* page written as <i>.png, for every number of page files.
C17_ReusedPagesInIndexOrder ==
    (run.decision = "Reuse" /\ run.status = "ok")
    => \A i \in DOMAIN dir.pngs :
           /\ get_texture(atlas, i).ok
           /\ get_texture(atlas, i).texture = dir.pngs[i]

\* the pages of the build that wrote the persisted config
PersistedPages(d) == { d.bin.frames[k].texture_idx : k \in DOMAIN d.bin.frames }

\* C18 as stated: on Reuse the reconstructed atlas has as many pages as the
\* build that wrote the persisted config produced, whatever builds wrote into
\* the cache directory before.
C18_ReusedPageCount ==
    (run.decision = "Reuse" /\ run.status = "ok")
    => Len(atlas.textures) = Cardinality(PersistedPages(dir))

====
